---- MODULE Spec2Model ----
(***************************************************************************)
(* QuestLog: the quest hierarchy, the gamification state (XP, level), the  *)
(* progress aggregation and the fragments returned to the client, as       *)
(* implemented by the request handlers of src/main.py over the two tables  *)
(* of src/database/models.py.                                              *)
(*                                                                         *)
(* Every action is one request handled from its first query to its         *)
(* response, or the part of a handler between two points where it yields   *)
(* to the event loop: the handlers are coroutines of one event loop, and   *)
(* ai_architect and read_root await the AI service between their first     *)
(* query and their commit.  A handler that raises leaves the store as its  *)
(* last commit left it: get_db closes the session without committing.      *)
(***************************************************************************)
EXTENDS Integers, Sequences, FiniteSets, TLC

VARIABLES
    quests,     \* the quests table: rows in rowid (= id) order
    settings,   \* the settings table: rows in rowid order
    resp,       \* the response to the last request
    shown,      \* the progress percentage the client displays
    body,       \* what the last response carries besides the progress
    asked,      \* the AI capability the last step called, if any
    now,        \* the clock of the server
    awaiting    \* the requests suspended in an await, in order of arrival

vars == <<quests, settings, resp, shown, body, asked, now, awaiting>>

(***************************************************************************)
(* Bounds of the model.                                                    *)
(***************************************************************************)
MaxQuests == 2      \* rows of the quests table at any one time
MaxId     == 2      \* largest quest id handed out
MaxXp     == 500    \* no XP is awarded beyond this
MaxTasks  == 1      \* sub-quests returned by one AI breakdown
OrderQuests == 2    \* rows of the quests table in SpecOrder
OrderIds  == 3      \* largest quest id handed out in SpecOrder
OrderTokens == 2    \* tokens of one reorder request in SpecOrder
BoardQuests == 4    \* rows of the quests table in SpecBoard
BoardIds  == 5      \* largest quest id handed out in SpecBoard
BoardXp   == 300    \* no XP is awarded beyond this in SpecBoard
MaxRatio  == 51     \* largest number of sub-quests in SpecRing
TicksPerDay == 2    \* instants of the clock in one calendar day
ArchQuests == 4     \* rows of the quests table in SpecArchitect
ArchIds   == 4      \* largest quest id handed out in SpecArchitect
ArchTasks == 2      \* sub-quests returned by one AI breakdown in SpecArchitect
AsyncQuests == 2    \* rows of the quests table in SpecAsync
AsyncIds  == 2      \* largest quest id handed out in SpecAsync
AsyncTasks == 1     \* sub-quests returned by one AI breakdown in SpecAsync
MaxAwaiting == 2    \* requests suspended at one time in SpecAsync
DurQuests == 2      \* rows of the quests table in SpecDuration
DurIds    == 2      \* largest quest id handed out in SpecDuration
DurTasks  == 1      \* sub-quests returned by one AI breakdown in SpecDuration
CardQuests == 2     \* rows of the quests table in SpecCards
CardIds   == 2      \* largest quest id handed out in SpecCards
OrphanQuests == 2   \* rows of the quests table in SpecOrphan
OrphanIds == 3      \* largest quest id handed out in SpecOrphan
OrphanXp  == 100    \* XP at which SpecOrphan stops awarding

(***************************************************************************)
(* Program constants.                                                      *)
(***************************************************************************)
NULL      == 0      \* a null parent_id (ids start at 1; both are falsy)
xp_gain   == 100
XpPerLevel == 500
NoProgress == 0 - 1 \* a response that carries no progress fragment

(***************************************************************************)
(* int((completed / total) * 100) on IEEE-754 doubles, computed on 18-bit  *)
(* limbs: the quotient is rounded to 53 bits (nearest, ties to even), the  *)
(* product with 100 is rounded to 53 bits again, int() truncates.          *)
(***************************************************************************)
Limb == 262144      \* 2^18

RECURSIVE Pow2(_)
Pow2(n) == IF n = 0 THEN 1 ELSE 2 * Pow2(n - 1)

RECURSIVE Scale(_, _, _)
\* the least s with K * 2^s >= N
Scale(K, N, s) == IF K * Pow2(s) >= N THEN s ELSE Scale(K, N, s + 1)

FloatPercent(K, N) ==
    IF K = 0 THEN 0 ELSE
    LET s   == Scale(K, N, 0)
        x   == K * Pow2(s)
        \* K / N: a 53-bit significand a:b:c and the remainder r3
        a0  == (x * 65536) \div N
        r1  == (x * 65536) % N
        b0  == (r1 * Limb) \div N
        r2  == (r1 * Limb) % N
        c0  == (r2 * Limb) \div N
        r3  == (r2 * Limb) % N
        up1 == 2 * r3 > N \/ (2 * r3 = N /\ c0 % 2 = 1)
        c1  == IF up1 THEN c0 + 1 ELSE c0
        c   == c1 % Limb
        b1  == b0 + (c1 \div Limb)
        b   == b1 % Limb
        a   == a0 + (b1 \div Limb)
        \* the exact product with 100
        C0  == c * 100
        C   == C0 % Limb
        B0  == b * 100 + (C0 \div Limb)
        B   == B0 % Limb
        A   == a * 100 + (B0 \div Limb)
        \* rounded to 53 bits: 6 or 7 low bits go
        d   == IF A < 8388608 THEN 6 ELSE 7
        low == C % Pow2(d)
        half == Pow2(d - 1)
        up2 == low > half \/ (low = half /\ (C \div Pow2(d)) % 2 = 1)
        C2  == C - low + (IF up2 THEN Pow2(d) ELSE 0)
        B2  == B + (C2 \div Limb)
        A2  == A + (B2 \div Limb)
    IN  A2 \div Pow2(16 + s)

\* main.py:249 and :292
ProgressOf(completed_subquests, total_subquests) ==
    IF total_subquests > 0
    THEN FloatPercent(completed_subquests, total_subquests)
    ELSE 0

(***************************************************************************)
(* The two tables.                                                         *)
(***************************************************************************)
\* models.py: Quest.  is_completed defaults to False, position to 0.
Quest(id, category, parent_id, position, deadline) ==
    [id |-> id, category |-> category, parent_id |-> parent_id,
     is_completed |-> FALSE, position |-> position, deadline |-> deadline]

\* a null daily_quote, a null last_quote_date
NoQuote == "<null>"
NoDate == 0 - 1

\* models.py: Settings.  xp defaults to 0, level to 1, the quote columns to
\* null.
Settings(hero_name, theme_name) ==
    [hero_name |-> hero_name, theme_name |-> theme_name, xp |-> 0, level |-> 1,
     daily_quote |-> NoQuote, last_quote_date |-> NoDate]

\* quests.id is an INTEGER PRIMARY KEY without AUTOINCREMENT: SQLite hands out
\* one more than the largest rowid in the table, 1 when the table is empty.
NextId(rows) == IF rows = <<>> THEN 1 ELSE rows[Len(rows)].id + 1

\* db.query(Quest).filter(Quest.id == quest_id): .first() is its head
QuestById(rows, quest_id) == SelectSeq(rows, LAMBDA q : q.id = quest_id)

\* db.query(Quest).filter(Quest.category == "Main"): .first() is its head
MainQuests(rows) == SelectSeq(rows, LAMBDA q : q.category = "Main")

\* db.query(Quest).filter(Quest.parent_id == pid)
ChildrenOf(rows, pid) == SelectSeq(rows, LAMBDA q : q.parent_id = pid)

\* ... .filter(Quest.parent_id == pid, Quest.is_completed == True)
CompletedChildrenOf(rows, pid) ==
    SelectSeq(rows, LAMBDA q : q.parent_id = pid /\ q.is_completed)

\* the progress lines shared by toggle_quest and delete_quest
ParentProgress(rows, pid) ==
    ProgressOf(Len(CompletedChildrenOf(rows, pid)), Len(ChildrenOf(rows, pid)))

(***************************************************************************)
(* Responses.                                                              *)
(***************************************************************************)
Ok(progress) == [status |-> "ok", progress |-> progress]
\* an exception escaped the handler: the framework answers 500
Failed == [status |-> "error", progress |-> NoProgress]

\* the body of a response: its kind and the quest cards in it
Body(kind) == [kind |-> kind, cards |-> <<>>]
NoBody == Body("none")              \* a 500, or the 204 of update_settings
Empty == Body("empty")              \* return ""
Ring == Body("ring")                \* the progress ring alone
Redirect == Body("redirect")        \* an HX-Redirect to /
Message == Body("message")          \* "<p>Error: No Main Quest found.</p>"
Form == Body("form")                \* the inline edit form
Index == Body("index")              \* index.html, the first-run page
Dashboard == Body("dashboard")      \* dashboard.html
Cards(cards) == [kind |-> "cards", cards |-> cards]

\* what a step asks of the AI service
NoCall == "none"

(***************************************************************************)
(* Deadline input of a form: absent, or a string that strptime parses with *)
(* "%Y-%m-%d" or rejects with ValueError.  A date is the number of its day *)
(* in the model's calendar, a datetime an instant of the clock; strptime   *)
(* yields the first instant of the day.  The server's local time is taken  *)
(* to be UTC: datetime.now() and datetime.utcnow() read the same clock.    *)
(***************************************************************************)
Midnight(day) == day * TicksPerDay
\* datetime.date()
DateOf(instant) == instant \div TicksPerDay

NoDeadline == 0     \* a null deadline
Absent == "<absent>"
DayOf == ("2026-01-05" :> 5)
DeadlineInputs == {Absent, "", "2026-01-05", "someday"}
\* the inputs that leave every deadline null
NullDeadlineInputs == {Absent, "someday"}
strptime(text) ==
    IF text \in DOMAIN DayOf
    THEN [ok |-> TRUE, value |-> Midnight(DayOf[text])]
    ELSE [ok |-> FALSE, value |-> NoDeadline]

\* the clock runs from the day before the date of the forms to the day
\* after it
FirstInstant == Midnight(DayOf["2026-01-05"] - 1)
LastInstant == Midnight(DayOf["2026-01-05"] + 1)

Init ==
    /\ quests = <<>>
    /\ settings = <<>>
    /\ resp = Ok(NoProgress)
    /\ shown = NoProgress
    /\ body = Empty
    /\ asked = NoCall
    /\ now = FirstInstant
    /\ awaiting = <<>>

(***************************************************************************)
(* render_quest_card: of the card, the quest it is for, the checked        *)
(* attribute and the overdue marker.                                       *)
(***************************************************************************)
\* the completion forgotten
is_overdue_whatever_completion(quest, utcnow) ==
    quest.deadline # NoDeadline /\ quest.deadline < utcnow

\* main.py:379-382
is_overdue(quest, utcnow) ==
    /\ quest.deadline # NoDeadline
    /\ ~quest.is_completed
    /\ quest.deadline < utcnow

render_quest_card(quest, utcnow) ==
    [id |-> quest.id, checked |-> quest.is_completed,
     overdue |-> is_overdue(quest, utcnow)]

(***************************************************************************)
(* POST /api/onboarding/submit                                             *)
(***************************************************************************)
\* a Settings row added whatever the table holds
WithSettingsAlways(srows) == Append(srows, Settings("Hero", "Cyberpunk"))

\* main.py:445-447
WithSettings(srows) ==
    IF srows = <<>> THEN <<Settings("Hero", "Cyberpunk")>> ELSE srows

\* main.py:427-432
OnboardingDeadline(deadline) ==
    IF deadline \notin {Absent, ""} /\ strptime(deadline).ok
    THEN strptime(deadline).value
    ELSE NoDeadline

onboarding_submit(deadline) ==
    LET deadline_dt == OnboardingDeadline(deadline)
        new_quest == Quest(NextId(quests), "Main", NULL, 0, deadline_dt)
    IN  /\ quests' = Append(quests, new_quest)
        /\ settings' = WithSettings(settings)
        /\ resp' = Ok(NoProgress)
        /\ body' = Redirect
        /\ asked' = NoCall
        /\ UNCHANGED <<shown, now, awaiting>>

(***************************************************************************)
(* POST /api/quest/add                                                     *)
(***************************************************************************)
\* the Main Quest not looked for: the quest is created as a root
add_quest_unparented(category) ==
    LET new_quest == Quest(NextId(quests), category, NULL, 0, NoDeadline)
    IN  /\ quests' = Append(quests, new_quest)
        /\ resp' = Ok(NoProgress)
        /\ body' = Cards(<<render_quest_card(new_quest, now)>>)
        /\ asked' = NoCall
        /\ UNCHANGED <<settings, shown, now, awaiting>>

add_quest(category) ==
    LET mains == MainQuests(quests) IN
    IF mains = <<>>
    THEN /\ resp' = Ok(NoProgress)
         /\ body' = Empty
         /\ asked' = NoCall
         /\ UNCHANGED <<quests, settings, shown, now, awaiting>>
    ELSE LET main_quest == Head(mains)
             max_pos == Len(ChildrenOf(quests, main_quest.id))
             new_quest == Quest(NextId(quests), category, main_quest.id,
                                max_pos, NoDeadline)
         IN  /\ quests' = Append(quests, new_quest)
             /\ resp' = Ok(NoProgress)
             /\ body' = Cards(<<render_quest_card(new_quest, now)>>)
             /\ asked' = NoCall
             /\ UNCHANGED <<settings, shown, now, awaiting>>

(***************************************************************************)
(* POST /api/ai/architect.  tasks is what the AI service returned: one     *)
(* record per parsed line, none when the service is unavailable.  The      *)
(* duration text of a task is the sequence of its words.                   *)
(***************************************************************************)
TaskCategories == {"General", "Main"}

RECURSIVE SeqsUpTo(_, _)
SeqsUpTo(S, n) ==
    IF n = 0 THEN {<<>>}
    ELSE LET shorter == SeqsUpTo(S, n - 1)
         IN  shorter \cup {Append(t, x) : t \in shorter, x \in S}

\* the words that are runs of digits, with int() of them
IntOf == ("0" :> 0) @@ ("1" :> 1) @@ ("2" :> 2) @@ ("10" :> 10)

\* the unit keywords that occur in a word, as substrings
KeywordsIn ==
    ("month" :> {"month"}) @@ ("weeks" :> {"week"}) @@ ("days" :> {"day"})
        @@ ("year" :> {"year"}) @@ ("today" :> {"day"}) @@ ("soon" :> {})

Durations ==
    {<<"2", "weeks">>, <<"1", "month">>, <<"10", "days">>,
     <<"1", "month", "2", "weeks">>, <<"2", "weeks", "1", "month">>,
     <<"0", "days">>, <<"year">>, <<"today">>, <<"soon">>}

\* the texts without a unit keyword
NullDurations == {<<"soon">>}

\* the task lists of up to n tasks with the given duration texts
TaskListsOver(categories, durations, n) ==
    SeqsUpTo([category : categories, deadline : durations], n)

TaskLists == TaskListsOver(TaskCategories, NullDurations, MaxTasks)

RECURSIVE FirstInt(_)
\* main.py:181-182: re.search(r'\d+', duration_str), 1 without a match
FirstInt(duration_str) ==
    IF duration_str = <<>> THEN 1
    ELSE IF Head(duration_str) \in DOMAIN IntOf THEN IntOf[Head(duration_str)]
    ELSE FirstInt(Tail(duration_str))

\* 'keyword' in duration_str
Occurs(keyword, duration_str) ==
    \E i \in DOMAIN duration_str :
        /\ duration_str[i] \in DOMAIN KeywordsIn
        /\ keyword \in KeywordsIn[duration_str[i]]

\* main.py:177-191
days_to_add(duration_str) ==
    LET num == FirstInt(duration_str)
    IN  IF Occurs("month", duration_str) THEN num * 30
        ELSE IF Occurs("week", duration_str) THEN num * 7
        ELSE IF Occurs("day", duration_str) THEN num
        ELSE IF Occurs("year", duration_str) THEN num * 365
        ELSE 0

\* main.py:193-194: datetime.now() + timedelta(days=days_to_add)
ArchitectDeadline(duration_str, clock) ==
    IF days_to_add(duration_str) > 0
    THEN clock + days_to_add(duration_str) * TicksPerDay
    ELSE NoDeadline

\* the rows of main.py:173-208, with the ids the commit gives them; position
\* is left to its column default
ArchitectSaved(rows, main_quest_id, tasks, clock) ==
    [i \in 1..Len(tasks) |->
        Quest(NextId(rows) + i - 1, tasks[i].category, main_quest_id, 0,
              ArchitectDeadline(tasks[i].deadline, clock))]

\* main.py:211-213
ArchitectCards(saved_quests, clock) ==
    Cards([i \in DOMAIN saved_quests |->
              render_quest_card(saved_quests[i], clock)])

\* the handler when the AI service answers before any other request arrives
ai_architect(tasks) ==
    LET mains == MainQuests(quests) IN
    IF mains = <<>>
    THEN /\ resp' = Ok(NoProgress)
         /\ body' = Message
         /\ asked' = NoCall
         /\ UNCHANGED <<quests, settings, shown, now, awaiting>>
    ELSE LET main_quest == Head(mains)
             saved_quests == ArchitectSaved(quests, main_quest.id, tasks, now)
         IN  /\ quests' = quests \o saved_quests
             /\ resp' = Ok(NoProgress)
             /\ body' = ArchitectCards(saved_quests, now)
             /\ asked' = "subquests"
             /\ UNCHANGED <<settings, shown, now, awaiting>>

\* a suspended request: the handler, the id of the Main Quest it loaded, the
\* ids of the sub-quests it loaded and the date it took for today
Suspended(handler, main_quest_id, subquest_ids, today) ==
    [handler |-> handler, main_quest_id |-> main_quest_id,
     subquest_ids |-> subquest_ids, today |-> today]

\* the suspended requests without the k-th
Resumed(k) == SubSeq(awaiting, 1, k - 1) \o SubSeq(awaiting, k + 1, Len(awaiting))

\* main.py:164-169: the handler up to the await of generate_subquests
ai_architect_await ==
    /\ MainQuests(quests) # <<>>
    /\ awaiting' = Append(awaiting,
                          Suspended("ai_architect", Head(MainQuests(quests)).id,
                                    <<>>, NoDate))
    /\ asked' = "subquests"
    /\ UNCHANGED <<quests, settings, resp, shown, body, now>>

\* main.py:172-215: the handler from the answer of the AI service on;
\* main_quest.id is the id loaded before the await
ai_architect_resume(k, tasks) ==
    /\ k \in DOMAIN awaiting
    /\ awaiting[k].handler = "ai_architect"
    /\ LET saved_quests ==
               ArchitectSaved(quests, awaiting[k].main_quest_id, tasks, now)
       IN  /\ quests' = quests \o saved_quests
           /\ body' = ArchitectCards(saved_quests, now)
    /\ resp' = Ok(NoProgress)
    /\ asked' = NoCall
    /\ awaiting' = Resumed(k)
    /\ UNCHANGED <<settings, shown, now>>

(***************************************************************************)
(* POST /api/quest/{quest_id}/toggle                                       *)
(***************************************************************************)
\* the award forgotten
ToggleXpNoAward(xp, previous_state) ==
    IF ~previous_state
    THEN xp
    ELSE IF xp - xp_gain > 0 THEN xp - xp_gain ELSE 0

\* the revocation forgotten
ToggleXpNoRevoke(xp, previous_state) ==
    IF ~previous_state THEN xp + xp_gain ELSE xp

\* the two branches taken the wrong way round
ToggleXpInverted(xp, previous_state) ==
    IF previous_state THEN xp + xp_gain ELSE xp - xp_gain

\* a revocation that takes all the XP
ToggleXpRevokingAll(xp, previous_state) ==
    IF previous_state THEN 0 ELSE xp + xp_gain

\* main.py:228-233
ToggleXp(xp, previous_state) ==
    IF ~previous_state
    THEN xp + xp_gain
    ELSE IF xp - xp_gain > 0 THEN xp - xp_gain ELSE 0

\* the 1 + forgotten
LevelForFromZero(xp) == xp \div XpPerLevel

\* main.py:236
LevelFor(xp) == 1 + (xp \div XpPerLevel)

\* main.py:223-224
Toggled(rows, quest_id) ==
    [i \in DOMAIN rows |->
        IF rows[i].id = quest_id
        THEN [rows[i] EXCEPT !.is_completed = ~rows[i].is_completed]
        ELSE rows[i]]

\* the two tables after main.py:219-239; as they were when there is nothing
\* to toggle or when settings.xp raises for want of a Settings row
ToggleCommitted(rows, srows, quest_id) ==
    IF QuestById(rows, quest_id) = <<>> \/ srows = <<>>
    THEN [quests |-> rows, settings |-> srows]
    ELSE LET quest == Head(QuestById(rows, quest_id))
             new_xp == ToggleXp(Head(srows).xp, quest.is_completed)
         IN  [quests |-> Toggled(rows, quest_id),
              settings |-> <<[Head(srows) EXCEPT !.xp = new_xp,
                                                 !.level = LevelFor(new_xp)]>>
                           \o Tail(srows)]

toggle_quest(quest_id) ==
    LET found == QuestById(quests, quest_id)
        store == ToggleCommitted(quests, settings, quest_id)
    IN
    /\ quests' = store.quests
    /\ settings' = store.settings
    /\ asked' = NoCall
    /\ UNCHANGED <<now, awaiting>>
    /\ IF found = <<>> \/ settings = <<>>
       THEN \* no quest: settings.xp (no Settings row) or quest.is_completed
            \* (main.py:254) raises; no Settings row: main.py:230 raises
            /\ resp' = Failed
            /\ body' = NoBody
            /\ UNCHANGED shown
       ELSE IF Head(found).parent_id = NULL
       THEN /\ resp' = Ok(0)
            /\ body' = Ring
            /\ shown' = 0
       ELSE IF QuestById(store.quests, Head(found).parent_id) = <<>>
       THEN \* parent.id raises after the commit
            /\ resp' = Failed
            /\ body' = NoBody
            /\ UNCHANGED shown
       ELSE LET progress == ParentProgress(store.quests, Head(found).parent_id)
            IN  /\ resp' = Ok(progress)
                /\ body' = Ring
                /\ shown' = progress

(***************************************************************************)
(* DELETE /api/quest/{quest_id}                                            *)
(***************************************************************************)
\* the children deleted with their parent
DeletedCascading(rows, quest_id) ==
    SelectSeq(rows, LAMBDA q : q.id # quest_id /\ q.parent_id # quest_id)

\* db.delete(quest); db.commit().  Quest.children (models.py:22) is declared
\* with remote_side=[id], which makes it the many-to-one side and its backref
\* the one-to-many collection of the rows whose parent_id is this id.  The
\* collection has no delete cascade and passive_deletes is off, so the flush
\* loads it and sets the parent_id of each of its rows to NULL.
Deleted(rows, quest_id) ==
    LET kept == SelectSeq(rows, LAMBDA q : q.id # quest_id)
    IN  [i \in DOMAIN kept |->
            IF kept[i].parent_id = quest_id
            THEN [kept[i] EXCEPT !.parent_id = NULL]
            ELSE kept[i]]

delete_quest(quest_id) ==
    LET found == QuestById(quests, quest_id) IN
    IF found = <<>>
    THEN /\ resp' = Ok(NoProgress)
         /\ body' = Empty
         /\ asked' = NoCall
         /\ UNCHANGED <<quests, settings, shown, now, awaiting>>
    ELSE LET parent_id == Head(found).parent_id
             rows == Deleted(quests, quest_id)
         IN  /\ quests' = rows
             /\ asked' = NoCall
             /\ UNCHANGED <<settings, now, awaiting>>
             /\ IF parent_id = NULL
                THEN /\ resp' = Ok(NoProgress)
                     /\ body' = Empty
                     /\ UNCHANGED shown
                ELSE IF QuestById(rows, parent_id) = <<>>
                THEN \* parent.id raises after the commit
                     /\ resp' = Failed
                     /\ body' = NoBody
                     /\ UNCHANGED shown
                ELSE LET progress == ParentProgress(rows, parent_id)
                     IN  /\ resp' = Ok(progress)
                         /\ body' = Ring
                         /\ shown' = progress

(***************************************************************************)
(* POST /api/quest/reorder.  A token is the sequence of the pieces that    *)
(* item_str.split("-") yields: "quest-5" is <<"quest", "5">>.              *)
(***************************************************************************)
\* int() of a piece: its value, or ValueError for what is no integer literal
IntLiterals == ("1" :> 1) @@ ("2" :> 2)

Tokens ==
    {<<"quest", d>> : d \in DOMAIN IntLiterals}
        \cup {<<"quest">>, <<"quest", "x">>}

\* item is a required form field: a list of at least one token
TokenLists(n) == SeqsUpTo(Tokens, n) \ {<<>>}

\* main.py:122: int(item_str.split("-")[1]); IndexError and ValueError are
\* caught by the handler, which goes on with the next token
TokenQuestId(item_str) ==
    IF Len(item_str) < 2 THEN [ok |-> FALSE, id |-> NULL]
    ELSE IF item_str[2] \notin DOMAIN IntLiterals THEN [ok |-> FALSE, id |-> NULL]
    ELSE [ok |-> TRUE, id |-> IntLiterals[item_str[2]]]

\* the index counted from 1
PositionedFromOne(rows, item_str, index) ==
    LET parsed == TokenQuestId(item_str)
    IN  [i \in DOMAIN rows |->
            IF parsed.ok /\ rows[i].id = parsed.id
            THEN [rows[i] EXCEPT !.position = index + 1]
            ELSE rows[i]]

\* main.py:123-125 for the token at position index (from 0) of the list
Positioned(rows, item_str, index) ==
    LET parsed == TokenQuestId(item_str)
    IN  [i \in DOMAIN rows |->
            IF parsed.ok /\ rows[i].id = parsed.id
            THEN [rows[i] EXCEPT !.position = index]
            ELSE rows[i]]

RECURSIVE Reordered(_, _, _)
\* the loop of main.py:119-127 from the token at position index on
Reordered(rows, item, index) ==
    IF index >= Len(item) THEN rows
    ELSE Reordered(Positioned(rows, item[index + 1], index), item, index + 1)

\* the two tables after main.py:119-129
ReorderCommitted(rows, srows, item) ==
    [quests |-> Reordered(rows, item, 0), settings |-> srows]

reorder_quests(item) ==
    LET store == ReorderCommitted(quests, settings, item)
    IN  /\ quests' = store.quests
        /\ settings' = store.settings
        /\ resp' = Ok(NoProgress)
        /\ body' = Empty
        /\ asked' = NoCall
        /\ UNCHANGED <<shown, now, awaiting>>

(***************************************************************************)
(* POST /api/settings/update                                               *)
(***************************************************************************)
ThemeNames == {"Forest"}
HeroNames == {"Ada"}

update_settings(theme_name, hero_name) ==
    /\ settings' = IF settings = <<>> THEN settings
                   ELSE <<[Head(settings) EXCEPT !.theme_name = theme_name,
                                                 !.hero_name = hero_name]>>
                        \o Tail(settings)
    /\ resp' = Ok(NoProgress)
    /\ body' = NoBody
    /\ asked' = NoCall
    /\ UNCHANGED <<quests, shown, now, awaiting>>

(***************************************************************************)
(* GET /api/quest/{quest_id}/edit and GET /api/quest/{quest_id}/cancel     *)
(***************************************************************************)
edit_quest_form(quest_id) ==
    /\ IF QuestById(quests, quest_id) = <<>> THEN body' = Empty ELSE body' = Form
    /\ resp' = Ok(NoProgress)
    /\ asked' = NoCall
    /\ UNCHANGED <<quests, settings, shown, now, awaiting>>

cancel_edit_quest(quest_id) ==
    LET found == QuestById(quests, quest_id) IN
    /\ IF found = <<>>
       THEN \* render_quest_card(None) raises AttributeError
            /\ resp' = Failed
            /\ body' = NoBody
       ELSE /\ resp' = Ok(NoProgress)
            /\ body' = Cards(<<render_quest_card(Head(found), now)>>)
    /\ asked' = NoCall
    /\ UNCHANGED <<quests, settings, shown, now, awaiting>>

(***************************************************************************)
(* PUT /api/quest/{quest_id}                                               *)
(***************************************************************************)
\* a string that strptime rejects taken like no string at all
UpdatedDeadlineNulling(old, deadline) ==
    IF deadline \notin {Absent, ""} /\ strptime(deadline).ok
    THEN strptime(deadline).value
    ELSE NoDeadline

\* main.py:362-368
UpdatedDeadline(old, deadline) ==
    IF deadline \notin {Absent, ""}
    THEN IF strptime(deadline).ok THEN strptime(deadline).value ELSE old
    ELSE NoDeadline

\* main.py:360-369
Updated(rows, quest_id, deadline) ==
    [i \in DOMAIN rows |->
        IF rows[i].id = quest_id
        THEN [rows[i] EXCEPT !.deadline = UpdatedDeadline(@, deadline)]
        ELSE rows[i]]

update_quest(quest_id, deadline) ==
    IF QuestById(quests, quest_id) = <<>>
    THEN \* render_quest_card(None) raises AttributeError
         /\ resp' = Failed
         /\ body' = NoBody
         /\ asked' = NoCall
         /\ UNCHANGED <<quests, settings, shown, now, awaiting>>
    ELSE LET rows == Updated(quests, quest_id, deadline)
         IN  /\ quests' = rows
             /\ resp' = Ok(NoProgress)
             /\ body' = Cards(<<render_quest_card(Head(QuestById(rows, quest_id)),
                                                  now)>>)
             /\ asked' = NoCall
             /\ UNCHANGED <<settings, shown, now, awaiting>>

(***************************************************************************)
(* GET /: the first-run page without a Settings row, else the dashboard.   *)
(* The dashboard template shows the progress of the Main Quest over the    *)
(* sub-quests the handler hands it.                                        *)
(***************************************************************************)
dashboard_progress(main_quest, subquests) ==
    IF Len(subquests) = 0 THEN 0
    ELSE (100 * Len(SelectSeq(subquests, LAMBDA q : q.is_completed)))
             \div Len(subquests)

\* what generate_motivation returns
Quotes == {"Keep moving forward."}

\* main.py:79-82
QuoteDue(srows, utcnow) ==
    \/ Head(srows).last_quote_date = NoDate
    \/ DateOf(Head(srows).last_quote_date) # DateOf(utcnow)

\* main.py:85-87
QuoteWritten(srows, new_quote, utcnow) ==
    <<[Head(srows) EXCEPT !.daily_quote = new_quote,
                          !.last_quote_date = utcnow]>> \o Tail(srows)

\* the handler when the AI service answers before any other request arrives
read_root(new_quote) ==
    /\ resp' = Ok(NoProgress)
    /\ UNCHANGED <<quests, now, awaiting>>
    /\ IF settings = <<>>
       THEN /\ body' = Index
            /\ shown' = NoProgress
            /\ asked' = NoCall
            /\ UNCHANGED settings
       ELSE IF MainQuests(quests) = <<>>
       THEN /\ body' = Dashboard
            /\ shown' = NoProgress
            /\ asked' = NoCall
            /\ UNCHANGED settings
       ELSE LET main_quest == Head(MainQuests(quests))
                subquests == ChildrenOf(quests, main_quest.id)
            IN  /\ body' = Dashboard
                /\ shown' = dashboard_progress(main_quest, subquests)
                /\ IF QuoteDue(settings, now)
                   THEN /\ settings' = QuoteWritten(settings, new_quote, now)
                        /\ asked' = "motivation"
                   ELSE /\ asked' = NoCall
                        /\ UNCHANGED settings

\* main.py:59-84: the handler up to the await of generate_motivation
read_root_await ==
    /\ settings # <<>>
    /\ MainQuests(quests) # <<>>
    /\ QuoteDue(settings, now)
    /\ LET main_quest == Head(MainQuests(quests))
           subquests == ChildrenOf(quests, main_quest.id)
       IN  awaiting' = Append(awaiting,
                              Suspended("read_root", main_quest.id,
                                        [i \in DOMAIN subquests |-> subquests[i].id],
                                        DateOf(now)))
    /\ asked' = "motivation"
    /\ UNCHANGED <<quests, settings, resp, shown, body, now>>

\* main.py:85-98: the handler from the answer of the AI service on.  The
\* UPDATE of the commit names the Settings row by its id, which is 1 for every
\* Settings row there ever is; when it matches no row the commit raises.  The
\* commit expires the loaded quests and the template reads them again: it
\* raises for one that is gone.
read_root_resume(k, new_quote) ==
    /\ k \in DOMAIN awaiting
    /\ awaiting[k].handler = "read_root"
    /\ awaiting' = Resumed(k)
    /\ asked' = NoCall
    /\ UNCHANGED <<quests, now>>
    /\ IF settings = <<>>
       THEN /\ resp' = Failed
            /\ body' = NoBody
            /\ UNCHANGED <<settings, shown>>
       ELSE LET loaded == <<awaiting[k].main_quest_id>> \o awaiting[k].subquest_ids
                subquests ==
                    SelectSeq(quests,
                              LAMBDA q : \E i \in DOMAIN awaiting[k].subquest_ids :
                                             awaiting[k].subquest_ids[i] = q.id)
            IN  /\ settings' = QuoteWritten(settings, new_quote, now)
                /\ IF \E i \in DOMAIN loaded : QuestById(quests, loaded[i]) = <<>>
                   THEN /\ resp' = Failed
                        /\ body' = NoBody
                        /\ UNCHANGED shown
                   ELSE /\ resp' = Ok(NoProgress)
                        /\ body' = Dashboard
                        /\ shown' = dashboard_progress(
                                        Head(QuestById(quests,
                                                       awaiting[k].main_quest_id)),
                                        subquests)

(***************************************************************************)
(* POST /api/settings/reset                                                *)
(***************************************************************************)
\* the quests deleted, the Settings left
reset_data_quests_only ==
    /\ quests' = <<>>
    /\ resp' = Ok(NoProgress)
    /\ body' = Redirect
    /\ asked' = NoCall
    /\ UNCHANGED <<settings, shown, now, awaiting>>

\* the Settings deleted, the quests left
reset_data_settings_only ==
    /\ settings' = <<>>
    /\ resp' = Ok(NoProgress)
    /\ body' = Redirect
    /\ asked' = NoCall
    /\ UNCHANGED <<quests, shown, now, awaiting>>

reset_data ==
    /\ quests' = <<>>
    /\ settings' = <<>>
    /\ resp' = Ok(NoProgress)
    /\ body' = Redirect
    /\ asked' = NoCall
    /\ UNCHANGED <<shown, now, awaiting>>

(***************************************************************************)
(* The clock advances.                                                     *)
(***************************************************************************)
Tick ==
    /\ now' = now + 1
    /\ UNCHANGED <<quests, settings, resp, shown, body, asked, awaiting>>

(***************************************************************************)
(* Spec: every request, in any order, each handled to its response.        *)
(***************************************************************************)
\* room for n more rows, with ids up to max_id
CanInsert(n, max_rows, max_id) ==
    /\ Len(quests) + n <= max_rows
    /\ NextId(quests) + n - 1 <= max_id

\* a toggle that awards XP is taken only below the cap
XpBelow(quest_id, cap) ==
    \A i \in DOMAIN quests :
        (quests[i].id = quest_id /\ ~quests[i].is_completed /\ settings # <<>>)
            => Head(settings).xp < cap

Next ==
    \/ \E deadline \in NullDeadlineInputs :
           CanInsert(1, MaxQuests, MaxId) /\ onboarding_submit(deadline)
    \/ \E category \in {"General", "Main"} :
           CanInsert(1, MaxQuests, MaxId) /\ add_quest(category)
    \/ \E tasks \in TaskLists :
           CanInsert(Len(tasks), MaxQuests, MaxId) /\ ai_architect(tasks)
    \/ \E quest_id \in 1..MaxId :
           XpBelow(quest_id, MaxXp) /\ toggle_quest(quest_id)
    \/ \E quest_id \in 1..MaxId : delete_quest(quest_id)
    \/ \E item_str \in Tokens : reorder_quests(<<item_str>>)
    \/ \E theme_name \in ThemeNames, hero_name \in HeroNames :
           update_settings(theme_name, hero_name)
    \/ \E quest_id \in 1..MaxId, deadline \in NullDeadlineInputs :
           update_quest(quest_id, deadline)
    \/ \E quest_id \in 1..MaxId : edit_quest_form(quest_id)
    \/ \E quest_id \in 1..MaxId : cancel_edit_quest(quest_id)
    \/ \E new_quote \in Quotes : read_root(new_quote)
    \/ reset_data

Spec == Init /\ [][Next]_vars

(***************************************************************************)
(* SpecBoard: one board with more sub-quests: onboarding while no Main     *)
(* Quest is stored, manual adds, toggles and deletions.                    *)
(***************************************************************************)
NextBoard ==
    \/ /\ MainQuests(quests) = <<>>
       /\ CanInsert(1, BoardQuests, BoardIds)
       /\ onboarding_submit(Absent)
    \/ CanInsert(1, BoardQuests, BoardIds) /\ add_quest("General")
    \/ \E quest_id \in 1..BoardIds :
           XpBelow(quest_id, BoardXp) /\ toggle_quest(quest_id)
    \/ \E quest_id \in 1..BoardIds : delete_quest(quest_id)

SpecBoard == Init /\ [][NextBoard]_vars

(***************************************************************************)
(* SpecOrder: the requests that create, remove, complete and order quests. *)
(***************************************************************************)
NextOrder ==
    \/ CanInsert(1, OrderQuests, OrderIds) /\ onboarding_submit(Absent)
    \/ CanInsert(1, OrderQuests, OrderIds) /\ add_quest("General")
    \/ \E quest_id \in 1..OrderIds :
           XpBelow(quest_id, BoardXp) /\ toggle_quest(quest_id)
    \/ \E quest_id \in 1..OrderIds : delete_quest(quest_id)
    \/ \E item \in TokenLists(OrderTokens) : reorder_quests(item)

SpecOrder == Init /\ [][NextOrder]_vars

(***************************************************************************)
(* SpecArchitect: a board filled by hand and by the AI breakdown.          *)
(***************************************************************************)
ArchitectTaskLists == TaskListsOver({"General"}, NullDurations, ArchTasks)

NextArchitect ==
    \/ /\ MainQuests(quests) = <<>>
       /\ CanInsert(1, ArchQuests, ArchIds)
       /\ onboarding_submit(Absent)
    \/ CanInsert(1, ArchQuests, ArchIds) /\ add_quest("General")
    \/ \E tasks \in ArchitectTaskLists :
           CanInsert(Len(tasks), ArchQuests, ArchIds) /\ ai_architect(tasks)
    \/ \E quest_id \in 1..ArchIds : delete_quest(quest_id)

SpecArchitect == Init /\ [][NextArchitect]_vars

(***************************************************************************)
(* SpecAsync: requests that arrive while ai_architect or read_root awaits  *)
(* the AI service, over two calendar days.                                 *)
(***************************************************************************)
AsyncTaskLists == TaskListsOver({"General"}, NullDurations, AsyncTasks)

NextAsync ==
    \/ /\ MainQuests(quests) = <<>>
       /\ CanInsert(1, AsyncQuests, AsyncIds)
       /\ onboarding_submit(Absent)
    \/ \E quest_id \in 1..AsyncIds : delete_quest(quest_id)
    \/ reset_data
    \/ \E new_quote \in Quotes : read_root(new_quote)
    \/ Len(awaiting) < MaxAwaiting /\ read_root_await
    \/ \E k \in 1..MaxAwaiting, new_quote \in Quotes :
           read_root_resume(k, new_quote)
    \/ Len(awaiting) < MaxAwaiting /\ ai_architect_await
    \/ \E k \in 1..MaxAwaiting, tasks \in AsyncTaskLists :
           CanInsert(Len(tasks), AsyncQuests, AsyncIds)
               /\ ai_architect_resume(k, tasks)
    \/ now < LastInstant /\ Tick

SpecAsync == Init /\ [][NextAsync]_vars

(***************************************************************************)
(* SpecOrphan: a board whose quests are completed, deleted and reset while *)
(* ai_architect awaits the AI service.                                     *)
(***************************************************************************)
NextOrphan ==
    \/ /\ MainQuests(quests) = <<>>
       /\ CanInsert(1, OrphanQuests, OrphanIds)
       /\ onboarding_submit(Absent)
    \/ CanInsert(1, OrphanQuests, OrphanIds) /\ add_quest("General")
    \/ \E quest_id \in 1..OrphanIds :
           XpBelow(quest_id, OrphanXp) /\ toggle_quest(quest_id)
    \/ \E quest_id \in 1..OrphanIds : delete_quest(quest_id)
    \/ reset_data
    \/ awaiting = <<>> /\ ai_architect_await
    \/ \E tasks \in AsyncTaskLists :
           CanInsert(Len(tasks), OrphanQuests, OrphanIds)
               /\ ai_architect_resume(1, tasks)

SpecOrphan == Init /\ [][NextOrphan]_vars

(***************************************************************************)
(* SpecQuote: dashboard views of one Settings record, which is created     *)
(* once and never reset, arriving while earlier views await the AI quote.  *)
(***************************************************************************)
NextQuote ==
    \/ /\ MainQuests(quests) = <<>>
       /\ CanInsert(1, AsyncQuests, AsyncIds)
       /\ onboarding_submit(Absent)
    \/ \E new_quote \in Quotes : read_root(new_quote)
    \/ Len(awaiting) < MaxAwaiting /\ read_root_await
    \/ \E k \in 1..MaxAwaiting, new_quote \in Quotes :
           read_root_resume(k, new_quote)
    \/ now < LastInstant /\ Tick

SpecQuote == Init /\ [][NextQuote]_vars

(***************************************************************************)
(* SpecDuration: AI breakdowns with every duration text, at every instant  *)
(* of the clock.                                                           *)
(***************************************************************************)
DurationTaskLists == TaskListsOver({"General"}, Durations, DurTasks)

NextDuration ==
    \/ /\ MainQuests(quests) = <<>>
       /\ CanInsert(1, DurQuests, DurIds)
       /\ onboarding_submit(Absent)
    \/ \E tasks \in DurationTaskLists :
           CanInsert(Len(tasks), DurQuests, DurIds) /\ ai_architect(tasks)
    \/ \E quest_id \in 1..DurIds : delete_quest(quest_id)
    \/ now < LastInstant /\ Tick

SpecDuration == Init /\ [][NextDuration]_vars

(***************************************************************************)
(* SpecCards: quests with and without deadlines, completed and edited      *)
(* while the clock passes the deadline.  The card of a quest is rendered   *)
(* by the PUT request alone.                                               *)
(***************************************************************************)
NextCards ==
    \/ \E deadline \in DeadlineInputs :
           CanInsert(1, CardQuests, CardIds) /\ onboarding_submit(deadline)
    \/ \E quest_id \in 1..CardIds :
           XpBelow(quest_id, BoardXp) /\ toggle_quest(quest_id)
    \/ \E quest_id \in 1..CardIds, deadline \in DeadlineInputs :
           update_quest(quest_id, deadline)
    \/ \E quest_id \in 1..CardIds : delete_quest(quest_id)
    \/ now < LastInstant /\ Tick

SpecCards == Init /\ [][NextCards]_vars

(***************************************************************************)
(* SpecRing: the progress fragment over boards of every size up to         *)
(* MaxRatio.  A board is what onboarding, n manual adds and a toggle of    *)
(* each of the first k sub-quests leave; one request is made on it: the    *)
(* last sub-quest is toggled or deleted.                                   *)
(***************************************************************************)
RingQuests(n, k) ==
    [i \in 1..(n + 1) |->
        IF i = 1 THEN Quest(1, "Main", NULL, 0, NoDeadline)
        ELSE [Quest(i, "General", 1, i - 2, NoDeadline)
                 EXCEPT !.is_completed = (i - 1 <= k)]]

RingSettings(k) ==
    <<[Settings("Hero", "Cyberpunk") EXCEPT !.xp = k * xp_gain,
                                            !.level = LevelFor(k * xp_gain)]>>

InitRing ==
    /\ \E n \in 1..MaxRatio : \E k \in 0..n :
           /\ quests = RingQuests(n, k)
           /\ settings = RingSettings(k)
    /\ resp = Ok(NoProgress)
    /\ shown = NoProgress
    /\ body = Empty
    /\ asked = NoCall
    /\ now = FirstInstant
    /\ awaiting = <<>>

NextRing ==
    \/ shown = NoProgress /\ toggle_quest(Len(quests))
    \/ shown = NoProgress /\ delete_quest(Len(quests))

SpecRing == InitRing /\ [][NextRing]_vars

(***************************************************************************)
(* The properties.                                                         *)
(***************************************************************************)
QuestIds == 1..(BoardIds + 1)

\* C1: whenever a Settings record exists, its persisted level is
\* 1 + floor(xp / 500).
LevelTracksXp ==
    \A i \in DOMAIN settings :
        settings[i].level = 1 + (settings[i].xp \div 500)

\* C1 witness: XP has reached 500 and the level 2.
ReachedLevelTwo ==
    /\ settings # <<>>
    /\ Head(settings).xp = 500
    /\ Head(settings).level = 2

\* C2: in every reachable state, toggling any stored quest twice in a row
\* leaves Settings.xp, Settings.level and the quest's completion flag as
\* they were before the first toggle.
DoubleToggleRestores ==
    \A i \in DOMAIN quests :
        LET quest_id == quests[i].id
            once == ToggleCommitted(quests, settings, quest_id)
            twice == ToggleCommitted(once.quests, once.settings, quest_id)
        IN  /\ twice.quests[i].is_completed = quests[i].is_completed
            /\ settings # <<>> =>
                   /\ Head(twice.settings).xp = Head(settings).xp
                   /\ Head(twice.settings).level = Head(settings).level

\* C2 witness: a completed quest while XP is exactly 500, so that the first
\* toggle of the pair revokes XP and takes the level from 2 back to 1.
CompletedAtLevelTwo ==
    /\ settings # <<>>
    /\ Head(settings).xp = 500
    /\ \E i \in DOMAIN quests : quests[i].is_completed

\* C3: a toggle of a stored quest flips its completion flag; from incomplete
\* it adds 100 XP, from complete it takes 100 XP away, not below 0.
ToggleStepsXp ==
    [][\A quest_id \in QuestIds :
          (toggle_quest(quest_id) /\ QuestById(quests, quest_id) # <<>>) =>
              LET before == Head(QuestById(quests, quest_id))
                  after == Head(QuestById(quests', quest_id))
                  xp == Head(settings).xp
              IN  /\ after.is_completed = ~before.is_completed
                  /\ ~before.is_completed => Head(settings').xp = xp + 100
                  /\ before.is_completed =>
                         Head(settings').xp = IF xp >= 100 THEN xp - 100 ELSE 0
      ]_vars

\* C3 witness: three sub-quests of which two are complete, 200 XP, level 1,
\* and the progress fragment of the second toggle reads 66.
TwoOfThreeDone ==
    /\ Len(quests) = 4
    /\ Len(ChildrenOf(quests, Head(quests).id)) = 3
    /\ Len(CompletedChildrenOf(quests, Head(quests).id)) = 2
    /\ Head(settings).xp = 200
    /\ Head(settings).level = 1
    /\ resp = Ok(66)

\* C4: Settings.xp is never negative.
XpNeverNegative ==
    \A i \in DOMAIN settings : settings[i].xp >= 0

\* C4 witness: a sub-quest has just been toggled back to incomplete (the
\* fragment reads 0 and nothing is complete) and XP is back at 0.
RevokedToZero ==
    /\ settings # <<>>
    /\ Head(settings).xp = 0
    /\ resp = Ok(0)
    /\ shown = 0
    /\ Len(quests) = 2
    /\ quests[2].parent_id = quests[1].id
    /\ \A i \in DOMAIN quests : ~quests[i].is_completed

\* floor(100 * K / N) over the rows whose parent is pid, 0 without any
FloorPercent(rows, pid) ==
    LET total == Len(SelectSeq(rows, LAMBDA q : q.parent_id = pid))
        done == Len(SelectSeq(rows, LAMBDA q : q.parent_id = pid /\ q.is_completed))
    IN  IF total = 0 THEN 0 ELSE (100 * done) \div total

\* C5: the progress that a toggle or a DELETE of a sub-quest of P returns is
\* floor(100 * K / N) over the stored sub-quests of P, and 0 when P has none.
FragmentIsFloor ==
    [][\A i \in DOMAIN quests :
          LET quest_id == quests[i].id
              pid == quests[i].parent_id
          IN  ((toggle_quest(quest_id) \/ delete_quest(quest_id))
                  /\ pid # NULL /\ resp'.status = "ok")
                  => resp'.progress = FloorPercent(quests', pid)
      ]_vars

\* C6: at most one stored quest has category "Main".
AtMostOneMain ==
    Cardinality({i \in DOMAIN quests : quests[i].category = "Main"}) <= 1

\* C7: a toggle that names an id no stored quest has changes no quest and
\* no Settings record, and is answered without an unhandled error.
MissingToggleIsNoOp ==
    [][\A quest_id \in QuestIds :
          (toggle_quest(quest_id) /\ QuestById(quests, quest_id) = <<>>) =>
              /\ quests' = quests
              /\ settings' = settings
              /\ resp'.status = "ok"
      ]_vars

\* the sub-quests of the Main Quest with their completion flags
MainChildren(rows) ==
    LET kids == SelectSeq(rows, LAMBDA q : q.parent_id = Head(MainQuests(rows)).id)
    IN  [i \in DOMAIN kids |-> <<kids[i].id, kids[i].is_completed>>]

\* C8: once the client displays a progress, every request that changes the
\* number or the completion of the Main Quest's sub-quests leaves the client
\* displaying the Main Quest's current floor(100 * K / N).
DisplayedProgressCurrent ==
    [][(/\ shown # NoProgress
        /\ MainQuests(quests) # <<>>
        /\ MainQuests(quests') # <<>>
        /\ Head(MainQuests(quests')).id = Head(MainQuests(quests)).id
        /\ MainChildren(quests') # MainChildren(quests))
          => shown' = FloorPercent(quests', Head(MainQuests(quests')).id)
      ]_vars

\* the token is well formed and names the quest id
Names(token, id) ==
    /\ Len(token) >= 2
    /\ token[2] \in {"1", "2"}
    /\ id = (IF token[2] = "1" THEN 1 ELSE 2)

\* C9 as stated: after a reorder, a quest named by a well-formed token at
\* index i has position i, an unnamed quest keeps its position, and no other
\* quest field and no Settings field changes.
ReorderSetsEveryIndex ==
    [][\A item \in TokenLists(OrderTokens) :
          reorder_quests(item) =>
              /\ settings' = settings
              /\ Len(quests') = Len(quests)
              /\ \A i \in DOMAIN quests :
                     /\ quests'[i] =
                            [quests[i] EXCEPT !.position = quests'[i].position]
                     /\ \A k \in DOMAIN item :
                            Names(item[k], quests[i].id)
                                => quests'[i].position = k - 1
                     /\ (\A k \in DOMAIN item : ~Names(item[k], quests[i].id))
                            => quests'[i].position = quests[i].position
      ]_vars

\* C9 amended: a quest named by well-formed tokens has the index of the last
\* of them as its position, an unnamed quest keeps its position, and no
\* other quest field and no Settings field changes.  Stated of what a reorder
\* request with any token list commits in any reachable state.
ReorderSetsLastIndex ==
    \A item \in TokenLists(OrderTokens) :
        LET store == ReorderCommitted(quests, settings, item)
        IN  /\ store.settings = settings
            /\ Len(store.quests) = Len(quests)
            /\ \A i \in DOMAIN quests :
                   /\ store.quests[i] =
                          [quests[i] EXCEPT !.position = store.quests[i].position]
                   /\ \A k \in DOMAIN item :
                          (/\ Names(item[k], quests[i].id)
                           /\ \A j \in DOMAIN item :
                                  j > k => ~Names(item[j], quests[i].id))
                              => store.quests[i].position = k - 1
                   /\ (\A k \in DOMAIN item : ~Names(item[k], quests[i].id))
                          => store.quests[i].position = quests[i].position

\* C9 witness: the quest of the first onboarding, created at position 0, has
\* been moved to position 1 while the sub-quest after it kept its own.
MovedToSecond ==
    /\ Len(quests) = 2
    /\ quests[1].id = 1
    /\ quests[1].position = 1
    /\ quests[2].parent_id = 1
    /\ quests[2].position = 0

\* a comes before b in the sibling order: by position, then by insertion
Before(a, b) ==
    \/ a.position < b.position
    \/ a.position = b.position /\ a.id < b.id

\* C10: the sub-quest that quest-add creates comes after every sub-quest the
\* Main Quest already had.
AddAppends ==
    [][(add_quest("General") /\ MainQuests(quests) # <<>>) =>
          \A i \in DOMAIN quests :
              quests[i].parent_id = Head(MainQuests(quests)).id
                  => Before(quests[i], quests'[Len(quests')])
      ]_vars

\* C11: every sub-quest that ai-architect creates is a child of the current
\* Main Quest, comes after every sub-quest the Main Quest had before the
\* request, and comes after the sub-quests created from earlier tasks of the
\* same answer.
ArchitectAppends ==
    [][\A tasks \in ArchitectTaskLists :
          (ai_architect(tasks) /\ MainQuests(quests) # <<>>) =>
              LET main_quest == Head(MainQuests(quests))
              IN  /\ Len(quests') = Len(quests) + Len(tasks)
                  /\ \A j \in DOMAIN tasks :
                         LET created == quests'[Len(quests) + j]
                         IN  /\ created.parent_id = main_quest.id
                             /\ \A i \in DOMAIN quests :
                                    quests[i].parent_id = main_quest.id
                                        => Before(quests[i], created)
                             /\ \A h \in 1..(j - 1) :
                                    Before(quests'[Len(quests) + h], created)
      ]_vars

\* C12: at most one Settings record exists.
AtMostOneSettings ==
    Len(settings) <= 1

\* C12 witness: onboarding has been submitted twice, and one Settings record
\* exists.
OnboardedTwice ==
    /\ Len(quests) = 2
    /\ \A i \in DOMAIN quests :
           quests[i].category = "Main" /\ quests[i].parent_id = NULL
    /\ Len(settings) = 1

\* a dashboard view is made: the handler runs to its response or to its await
DashboardView ==
    (\E new_quote \in Quotes : read_root(new_quote)) \/ read_root_await

\* a Settings record and a Main Quest exist and the quote is not of today
QuoteStale ==
    /\ settings # <<>>
    /\ MainQuests(quests) # <<>>
    /\ \/ Head(settings).last_quote_date = NoDate
       \/ Head(settings).last_quote_date \div TicksPerDay # now \div TicksPerDay

\* C13: a dashboard view calls the AI quote capability exactly when a
\* Settings record and a Main Quest exist and last_quote_date is null or of
\* another date than today; the answer of a call becomes daily_quote, with
\* last_quote_date the time of writing; a view that makes no call leaves
\* Settings as it is; and no view calls the AI on a date on which an earlier
\* view has called it.
MotivationOncePerDate ==
    [][/\ DashboardView =>
              /\ (asked' = "motivation") <=> QuoteStale
              /\ ~QuoteStale => settings' = settings
              /\ \A k \in DOMAIN awaiting :
                     (awaiting[k].handler = "read_root"
                          /\ awaiting[k].today = now \div TicksPerDay)
                         => asked' # "motivation"
       /\ \A new_quote \in Quotes :
              ((read_root(new_quote) /\ QuoteStale)
                   \/ \E k \in DOMAIN awaiting : read_root_resume(k, new_quote))
                  => /\ settings' # <<>>
                     /\ settings'[1].daily_quote = new_quote
                     /\ settings'[1].last_quote_date = now
      ]_vars

\* C14: while a request is suspended between its first read and its commit,
\* no other request changes the store; the Main Quest that a suspended
\* ai-architect read is still stored and the Settings record that a suspended
\* dashboard view read is still stored.
RequestsSerialized ==
    [][/\ (awaiting # <<>> /\ (Len(awaiting') >= Len(awaiting) \/ Len(awaiting) >= 2))
              => (quests' = quests /\ settings' = settings)
       /\ \A k \in DOMAIN awaiting' :
              /\ awaiting'[k].handler = "ai_architect"
                     => QuestById(quests', awaiting'[k].main_quest_id) # <<>>
              /\ awaiting'[k].handler = "read_root" => settings' # <<>>
      ]_vars

\* the factor of the first unit keyword that occurs in the text when month,
\* week, day and year are looked for in this order; 0 when none occurs
UnitFactor(text) ==
    LET has(keyword) == \E i \in DOMAIN text :
                            text[i] \in DOMAIN KeywordsIn
                                /\ keyword \in KeywordsIn[text[i]]
    IN  IF has("month") THEN 30
        ELSE IF has("week") THEN 7
        ELSE IF has("day") THEN 1
        ELSE IF has("year") THEN 365
        ELSE 0

\* the first integer in the text, 1 when there is none
FirstNumber(text) ==
    LET at == {i \in DOMAIN text : text[i] \in DOMAIN IntOf}
    IN  IF at = {} THEN 1
        ELSE IntOf[text[CHOOSE i \in at : \A j \in at : i <= j]]

\* C15: the deadline of a sub-quest that ai-architect creates is
\* now + n * factor days, with n the first integer of the duration text (1 if
\* none) and factor that of the first unit keyword found in the order month,
\* week, day, year (30, 7, 1, 365); it is null exactly when no unit keyword
\* occurs.
DurationSetsDeadline ==
    [][\A tasks \in DurationTaskLists :
          (ai_architect(tasks) /\ MainQuests(quests) # <<>>) =>
              \A j \in DOMAIN tasks :
                  LET created == quests'[Len(quests) + j]
                      text == tasks[j].deadline
                  IN  /\ (created.deadline = NoDeadline) <=> (UnitFactor(text) = 0)
                      /\ UnitFactor(text) # 0 =>
                             created.deadline =
                                 now + FirstNumber(text) * UnitFactor(text) * TicksPerDay
      ]_vars

\* C16: a card is rendered with the overdue marker exactly when the deadline
\* of its quest is not null, lies strictly before the current time, and the
\* quest is not completed; the card of a completed quest never has it.
OverdueMarker ==
    [][now' = now =>
          \A i \in DOMAIN body'.cards :
              LET card == body'.cards[i]
                  quest == Head(SelectSeq(quests', LAMBDA q : q.id = card.id))
              IN  /\ card.overdue <=> (/\ quest.deadline # NoDeadline
                                       /\ quest.deadline < now
                                       /\ ~quest.is_completed)
                  /\ quest.is_completed => ~card.overdue
      ]_vars

\* C16 witness: the card of a completed quest whose deadline has passed has
\* been rendered, without the marker.
CompletedPastDeadlineRendered ==
    \E i \in DOMAIN body.cards : \E j \in DOMAIN quests :
        /\ quests[j].id = body.cards[i].id
        /\ quests[j].is_completed
        /\ quests[j].deadline # NoDeadline
        /\ quests[j].deadline < now
        /\ ~body.cards[i].overdue

\* the deadline inputs that are no valid calendar date string
NoDateInputs == DeadlineInputs \ {"2026-01-05"}

\* C17 as stated: onboarding-submit and PUT quest/{id} with a deadline input
\* that is absent or no valid calendar date string leave the quest with a
\* null deadline and do not fail.
InvalidDeadlineNulls ==
    [][\A deadline \in NoDateInputs :
          /\ onboarding_submit(deadline) =>
                 /\ quests'[Len(quests')].deadline = NoDeadline
                 /\ resp'.status = "ok"
          /\ \A j \in DOMAIN quests :
                 update_quest(quests[j].id, deadline) =>
                     /\ quests'[j].deadline = NoDeadline
                     /\ resp'.status = "ok"
      ]_vars

\* C17 amended: onboarding-submit with such an input stores a null deadline;
\* PUT quest/{id} stores a null deadline when the input is absent or empty
\* and leaves the deadline as it was when the input is a non-empty string
\* that is no valid date; neither request fails.
InvalidDeadlineKept ==
    [][\A deadline \in NoDateInputs :
          /\ onboarding_submit(deadline) =>
                 /\ quests'[Len(quests')].deadline = NoDeadline
                 /\ resp'.status = "ok"
          /\ \A j \in DOMAIN quests :
                 update_quest(quests[j].id, deadline) =>
                     /\ quests'[j].deadline =
                            (IF deadline \in {Absent, ""}
                             THEN NoDeadline ELSE quests[j].deadline)
                     /\ resp'.status = "ok"
      ]_vars

\* C17 witness: a PUT has just been answered with the card of a quest that
\* has a deadline, next to a quest without one.
EditedWithDeadline ==
    /\ body.kind = "cards"
    /\ \E j \in DOMAIN quests :
           quests[j].id = body.cards[1].id /\ quests[j].deadline # NoDeadline
    /\ \E j \in DOMAIN quests : quests[j].deadline = NoDeadline

\* C18: settings-reset leaves no quest and no Settings record; while no
\* Settings record exists a dashboard view shows the first-run page and calls
\* no AI capability, and no request but onboarding-submit creates a Settings
\* record; onboarding-submit then creates it with xp = 0 and level = 1.
ResetReturnsToFirstRun ==
    [][/\ reset_data => (quests' = <<>> /\ settings' = <<>>)
       /\ settings = <<>> =>
              /\ (\E new_quote \in Quotes : read_root(new_quote)) =>
                     /\ body' = Index
                     /\ asked' = NoCall
                     /\ settings' = <<>>
              /\ (\E deadline \in DeadlineInputs : onboarding_submit(deadline)) =>
                     /\ Len(settings') = 1
                     /\ settings'[1].xp = 0
                     /\ settings'[1].level = 1
              /\ ~(\E deadline \in DeadlineInputs : onboarding_submit(deadline))
                     => settings' = <<>>
      ]_vars

\* C18 witness: settings-reset has just wiped a board on which the client
\* had seen all sub-quests complete.
WipedBoard ==
    /\ body = Redirect
    /\ quests = <<>>
    /\ settings = <<>>
    /\ shown = 100

\* C19: DELETE quest/{id}, quest-edit/{id}, quest-cancel/{id} and
\* PUT quest/{id} with an id that no stored quest has change no quest and no
\* Settings record and are answered without an unhandled error.
MissingQuestIsNoOp ==
    [][\A quest_id \in QuestIds :
          (/\ QuestById(quests, quest_id) = <<>>
           /\ \/ delete_quest(quest_id)
              \/ edit_quest_form(quest_id)
              \/ cancel_edit_quest(quest_id)
              \/ \E deadline \in DeadlineInputs : update_quest(quest_id, deadline))
              => /\ quests' = quests
                 /\ settings' = settings
                 /\ resp'.status = "ok"
      ]_vars

\* C20: without a Main Quest, quest-add and ai-architect create no quest and
\* ai-architect calls no AI capability; without a Settings record,
\* settings-update creates none; the store is unchanged and the request is
\* answered without an unhandled error.
MissingEntityShortCircuits ==
    [][/\ (/\ MainQuests(quests) = <<>>
           /\ \/ \E category \in TaskCategories : add_quest(category)
              \/ \E tasks \in TaskLists : ai_architect(tasks))
              => /\ quests' = quests
                 /\ settings' = settings
                 /\ asked' = NoCall
                 /\ resp'.status = "ok"
       /\ (/\ settings = <<>>
           /\ \E theme_name \in ThemeNames, hero_name \in HeroNames :
                  update_settings(theme_name, hero_name))
              => /\ settings' = <<>>
                 /\ quests' = quests
                 /\ resp'.status = "ok"
      ]_vars

\* C20 witness: ai-architect has just been answered with its message that
\* there is no Main Quest, while quests are stored.
ArchitectFoundNoMain ==
    /\ body = Message
    /\ quests # <<>>
    /\ MainQuests(quests) = <<>>

\* the stored quest with this id names a parent that is not stored
Dangling(rows, quest_id) ==
    \E i \in DOMAIN rows :
        /\ rows[i].id = quest_id
        /\ rows[i].parent_id # NULL
        /\ QuestById(rows, rows[i].parent_id) = <<>>

\* C21: quest-toggle and DELETE quest on a stored quest whose parent
\* reference names a quest that has been deleted are answered without an
\* unhandled error.
OrphanRequestsComplete ==
    [][\A quest_id \in 1..OrphanIds :
          (/\ Dangling(quests, quest_id)
           /\ toggle_quest(quest_id) \/ delete_quest(quest_id))
              => resp'.status = "ok"
      ]_vars

\* C22: the progress that quest-toggle returns for a stored quest is the
\* current progress of the Main Quest over its children, also when the
\* toggled quest is the Main Quest itself.
ToggleShowsMainProgress ==
    [][\A quest_id \in 1..BoardIds :
          (/\ toggle_quest(quest_id)
           /\ QuestById(quests, quest_id) # <<>>
           /\ MainQuests(quests) # <<>>
           /\ resp'.status = "ok")
              => resp'.progress =
                     FloorPercent(quests', Head(MainQuests(quests')).id)
      ]_vars

\* C23: while a dashboard view is suspended awaiting the AI quote it asked
\* for on some date, no other dashboard view of that date calls the AI quote
\* capability: of one Settings record, at most one call is made per date.
QuoteCalledOncePerDate ==
    [][(DashboardView /\ asked' = "motivation")
           => \A k \in DOMAIN awaiting :
                  awaiting[k].handler = "read_root"
                      => awaiting[k].today # DateOf(now)
      ]_vars

\* DELETE quest/{quest_id} on a stored quest leaves every other quest stored,
\* in the same order, with its fields as they were, but for parent_id, which
\* becomes what parent_after gives for the quest; it leaves no quest with
\* this id, and Settings as it was
DeleteLeaves(quest_id, parent_after(_)) ==
    LET others == SelectSeq(quests, LAMBDA q : q.id # quest_id)
    IN  /\ Len(quests') = Len(quests) - 1
        /\ Len(others) = Len(quests')
        /\ \A i \in DOMAIN others :
               quests'[i] = [others[i] EXCEPT !.parent_id = parent_after(others[i])]
        /\ settings' = settings

CompletedQuests(rows) == Len(SelectSeq(rows, LAMBDA q : q.is_completed))

\* C25: Settings.xp is always a multiple of 100 and at least 100 times the
\* number of stored completed quests, and so a quest-toggle that un-completes
\* a quest takes exactly 100 XP off: the clamp at zero never truncates.
XpCoversCompleted ==
    /\ [](\A i \in DOMAIN settings :
              /\ settings[i].xp % xp_gain = 0
              /\ settings[i].xp >= xp_gain * CompletedQuests(quests))
    /\ [][\A quest_id \in QuestIds :
              (/\ toggle_quest(quest_id)
               /\ settings # <<>>
               /\ \E i \in DOMAIN quests :
                      quests[i].id = quest_id /\ quests[i].is_completed)
                  => Head(settings').xp = Head(settings).xp - xp_gain
         ]_vars

\* C25 witness: a quest has just been un-completed while the XP was more
\* than 100 times the number of completed quests: 100 XP stay and no stored
\* quest is completed.
RevokedFromSurplus ==
    /\ body = Ring
    /\ settings # <<>>
    /\ Head(settings).xp = xp_gain
    /\ quests # <<>>
    /\ CompletedQuests(quests) = 0

\* C26: when every request runs to its response before the next arrives, a
\* Settings record is stored whenever a quest is stored, so that quest-toggle
\* on a stored quest finds a Settings record and is answered.
QuestsImplySettings ==
    /\ [](quests # <<>> => settings # <<>>)
    /\ [][\A quest_id \in QuestIds :
              (QuestById(quests, quest_id) # <<>> /\ toggle_quest(quest_id))
                  => /\ resp'.status = "ok"
                     /\ settings' # <<>>
                     /\ quests' = Toggled(quests, quest_id)
         ]_vars

\* C26 witness: a quest-toggle on the only stored quest, a Main Quest, has
\* been answered and its XP is in the Settings record.
ToggledWithSettings ==
    /\ body = Ring
    /\ resp = Ok(0)
    /\ settings # <<>>
    /\ Head(settings).xp = xp_gain
    /\ Len(quests) = 1
    /\ quests[1].category = "Main"
    /\ quests[1].is_completed

====
